---- MODULE Spec2Model ----
(***************************************************************************)
(* Model of src/main.py: the video-to-text converter.  One run of main()   *)
(* parses the arguments, builds a VideoToTextConverter, then either        *)
(* processes the file named by --file or discovers the videos of data/ and *)
(* processes each in turn (extract audio, transcribe, save text, delete    *)
(* the temporary audio file).  The file system (data/, output/) is part of *)
(* the state; the media decoder, the recognizer and the operating system   *)
(* are the environment, whose outcomes (success, error, user interrupt)    *)
(* are chosen nondeterministically.                                        *)
(***************************************************************************)
EXTENDS Integers, Sequences, FiniteSets

(* ---------------------------------------------------------------- bounds *)

\* at most this many files in data/
MaxFiles == 2

\* the program is invoked at most this many times on the same directories
MaxRuns == 2

(* ------------------------------------------------------------- file names *)

LowerChars == <<"a","b","c","d","e","f","g","h","i","j","k","l","m",
                "n","o","p","q","r","s","t","u","v","w","x","y","z">>
UpperChars == <<"A","B","C","D","E","F","G","H","I","J","K","L","M",
                "N","O","P","Q","R","S","T","U","V","W","X","Y","Z">>

\* str.upper() on one character: letters are mapped, digits and "." are kept
UpperChar(c) ==
    IF \E i \in 1..Len(LowerChars) : LowerChars[i] = c
    THEN UpperChars[CHOOSE i \in 1..Len(LowerChars) : LowerChars[i] = c]
    ELSE c

\* str.lower() on one character (os.path.normcase on a case-insensitive flavour)
LowerChar(c) ==
    IF \E i \in 1..Len(UpperChars) : UpperChars[i] = c
    THEN LowerChars[CHOOSE i \in 1..Len(UpperChars) : UpperChars[i] = c]
    ELSE c

Upper(s) == [i \in 1..Len(s) |-> UpperChar(s[i])]
Lower(s) == [i \in 1..Len(s) |-> LowerChar(s[i])]

\* video_extensions, each with its leading dot
video_extensions ==
    { <<".","m","p","4">>, <<".","a","v","i">>, <<".","m","o","v">>,
      <<".","m","k","v">>, <<".","w","m","v">>, <<".","f","l","v">>,
      <<".","w","e","b","m">> }

\* A file of data/: Path.stem and Path.suffix of its name.
File(stem, suffix) == [stem |-> stem, suffix |-> suffix]

\* The names a file of data/ (or the --file argument) is drawn from.
FileNames ==
    { File("talk", <<".","m","p","4">>),
      File("talk", <<".","a","v","i">>),
      File("clip", <<".","M","P","4">>),
      File("clip", <<".","M","p","4">>),
      File("notes", <<".","t","x","t">>) }

Stems == { f.stem : f \in FileNames }

\* The words spoken in each video: what the recognizer returns for it.
Speech(f) ==
    CASE f = File("talk", <<".","m","p","4">>) -> <<"good", "morning">>
      [] f = File("talk", <<".","a","v","i">>) -> <<"hello", "there">>
      [] f = File("clip", <<".","M","P","4">>) -> <<"first", "clip">>
      [] f = File("clip", <<".","M","p","4">>) -> <<"another", "one">>
      [] OTHER -> <<"some", "notes">>

\* args.file when --file is not given
NoFile == File("", <<>>)

\* A file of output/: absent, or present with a content.
Absent == [exists |-> FALSE, content |-> <<>>]
Present(c) == [exists |-> TRUE, content |-> c]

(* ------------------------------------------------------------------ state *)

VARIABLES
    dataDir,         \* the files of data/
    caseFold,        \* TRUE when Path.glob matches case-insensitively (Windows flavour)
    fileArg,         \* args.file, or NoFile
    argsValid,       \* whether the command line passes argparse
    run,             \* number of the current invocation of main()
    pc,              \* position in main()
    exitCode,        \* process exit code once pc = "exited", -1 while running
    printed,         \* the messages printed by this run
    mode,            \* "batch" or "single"
    remainingExts,   \* extensions the discovery loop has not yet scanned
    video_files,     \* the list built by process_all_videos (or <<the --file path>>)
    idx,             \* index in video_files of the video being processed
    audio,           \* stems s for which output/<s>_temp.wav exists
    txt,             \* txt[s]: content of output/<s>.txt, or Absent
    text,            \* the local variable text of process_video
    exc,             \* exception pending in process_video's try statement
    trace,           \* sub-steps run for the current video, with their outcomes
    txtBefore,       \* txt when process_video was entered for the current video
    written,         \* stems whose transcript this run has written completely
    failed,          \* TRUE once a sub-step of this run did not succeed
    prevTxt,         \* txt at the end of the previous run
    prevOk           \* the previous run was a batch that reached its summary

vars == << dataDir, caseFold, fileArg, argsValid, run, pc, exitCode, printed,
           mode, remainingExts, video_files, idx, audio, txt, text, exc,
           trace, txtBefore, written, failed, prevTxt, prevOk >>

env == << dataDir, caseFold, fileArg, argsValid >>

Range(s) == { s[i] : i \in 1..Len(s) }

\* all orders in which a directory scan may yield the members of S
Orders(S) ==
    { s \in [1..Cardinality(S) -> S] : \A x \in S : \E i \in DOMAIN s : s[i] = x }

\* the state of a fresh process
FreshProcess ==
    /\ pc = "parse"
    /\ exitCode = -1
    /\ printed = {}
    /\ mode = "batch"
    /\ remainingExts = {}
    /\ video_files = <<>>
    /\ idx = 0
    /\ text = <<>>
    /\ exc = "none"
    /\ trace = <<>>
    /\ written = {}
    /\ failed = FALSE

\* A directory d can exist on the platform: where names are matched
\* case-insensitively no two files differ by the casing of their names only.
CanExist(d, fold) ==
    fold => \A f, g \in d :
               (f.stem = g.stem /\ Lower(f.suffix) = Lower(g.suffix)) => f = g

Init ==
    /\ dataDir \in { d \in SUBSET FileNames : Cardinality(d) <= MaxFiles }
    /\ caseFold \in BOOLEAN
    /\ CanExist(dataDir, caseFold)
    /\ fileArg \in {NoFile} \cup FileNames
    /\ argsValid \in BOOLEAN
    /\ run = 1
    /\ audio = {}
    /\ txt = [s \in Stems |-> Absent]
    /\ txtBefore = txt
    /\ prevTxt = txt
    /\ prevOk = FALSE
    /\ FreshProcess

(* ------------------------------------------------------------------ main() *)

\* What main's handlers (lines 190-194) do with an exception e leaving the try
\* block: KeyboardInterrupt prints the notice and main returns (exit code 0),
\* any other Exception prints the critical error and calls sys.exit(1).
MainExcept(e) ==
    IF e = "KeyboardInterrupt"
    THEN [code |-> 0, msg |-> "interrupted"]
    ELSE [code |-> 1, msg |-> "critical"]

\* exception e propagates out of the try block of main
Propagate(e) ==
    /\ pc' = "exited"
    /\ exitCode' = MainExcept(e).code
    /\ printed' = printed \cup {MainExcept(e).msg}

\* parser.parse_args(): a bad command line ends the process with code 2
ParseArgs ==
    /\ pc = "parse"
    /\ IF argsValid
       THEN /\ pc' = "init"
            /\ UNCHANGED << exitCode, printed >>
       ELSE /\ pc' = "exited"
            /\ exitCode' = 2
            /\ printed' = printed \cup {"usage"}
    /\ UNCHANGED << env, run, mode, remainingExts, video_files, idx, audio, txt,
                    text, exc, trace, txtBefore, written, failed, prevTxt, prevOk >>

\* VideoToTextConverter.__init__: load the model, create data/ and output/
InitConverter ==
    /\ pc = "init"
    /\ \E r \in {"ok", "error", "interrupt"} :
          CASE r = "ok" -> /\ pc' = "dispatch"
                           /\ UNCHANGED << exitCode, printed >>
            [] r = "error" -> Propagate("Exception")
            [] OTHER -> Propagate("KeyboardInterrupt")
    /\ UNCHANGED << env, run, mode, remainingExts, video_files, idx, audio, txt,
                    text, exc, trace, txtBefore, written, failed, prevTxt, prevOk >>

\* main, lines 179-188: --file given or not
Dispatch ==
    /\ pc = "dispatch"
    /\ IF fileArg # NoFile
       THEN IF fileArg \notin dataDir
            THEN /\ pc' = "exited"
                 /\ exitCode' = 1
                 /\ printed' = printed \cup {"not_found"}
                 /\ UNCHANGED << mode, remainingExts, video_files, idx, txtBefore >>
            ELSE /\ mode' = "single"
                 /\ video_files' = <<fileArg>>
                 /\ idx' = 1
                 /\ txtBefore' = txt
                 /\ pc' = "extract"
                 /\ UNCHANGED << exitCode, printed, remainingExts >>
       ELSE /\ mode' = "batch"
            /\ remainingExts' = video_extensions
            /\ pc' = "discover"
            /\ UNCHANGED << exitCode, printed, video_files, idx, txtBefore >>
    /\ UNCHANGED << env, run, audio, txt, text, exc, trace, written, failed,
                    prevTxt, prevOk >>

\* the process falls off the end of main
MainEnd ==
    /\ pc = "main_end"
    /\ pc' = "exited"
    /\ exitCode' = 0
    /\ UNCHANGED << env, run, printed, mode, remainingExts, video_files, idx,
                    audio, txt, text, exc, trace, txtBefore, written, failed,
                    prevTxt, prevOk >>

(* ------------------------------------------------------ process_all_videos *)

\* fnmatch of a file's suffix against the suffix of the pattern "*<ext>"
Match(suffix, pat) ==
    IF caseFold THEN Lower(suffix) = Lower(pat) ELSE suffix = pat

\* self.data_dir.glob(f"*{pat}")
Glob(pat) == { f \in dataDir : Match(f.suffix, pat) }

\* one iteration of the loop over video_extensions (a set: any order)
DiscoverExt ==
    /\ pc = "discover"
    /\ remainingExts # {}
    /\ \E ext \in remainingExts :
       \E lo \in Orders(Glob(ext)) :
       \E up \in Orders(Glob(Upper(ext))) :
          /\ video_files' = video_files \o lo \o up
          /\ remainingExts' = remainingExts \ {ext}
    /\ UNCHANGED << env, run, pc, exitCode, printed, mode, idx, audio, txt, text,
                    exc, trace, txtBefore, written, failed, prevTxt, prevOk >>

\* lines 146-151: nothing found, or start the loop over video_files
CheckFound ==
    /\ pc = "discover"
    /\ remainingExts = {}
    /\ IF video_files = <<>>
       THEN /\ printed' = printed \cup {"no_videos"}
            /\ pc' = "main_end"
       ELSE /\ printed' = printed \cup {"found"}
            /\ pc' = "loop"
    /\ idx' = 0
    /\ UNCHANGED << env, run, exitCode, mode, remainingExts, video_files, audio,
                    txt, text, exc, trace, txtBefore, written, failed, prevTxt,
                    prevOk >>

\* a faulty loop bound: the last video of the list is never processed
MoreVideosButLast == idx + 1 < Len(video_files)

\* the for statement has another video to hand to process_video
MoreVideos == idx < Len(video_files)

\* the for statement of lines 154-157: next video, or the final summary
Loop ==
    /\ pc = "loop"
    /\ IF MoreVideos
       THEN /\ idx' = idx + 1
            /\ pc' = "extract"
            /\ trace' = <<>>
            /\ text' = <<>>
            /\ txtBefore' = txt
            /\ UNCHANGED printed
       ELSE /\ printed' = printed \cup {"summary"}
            /\ pc' = "main_end"
            /\ UNCHANGED << idx, trace, text, txtBefore >>
    /\ UNCHANGED << env, run, exitCode, mode, remainingExts, video_files, audio,
                    txt, exc, written, failed, prevTxt, prevOk >>

(* ------------------------------------------------------------ process_video *)

video_path == video_files[idx]
stem == video_path.stem

\* A faulty handler: the sub-step prints the error and does not re-raise it,
\* so process_video goes on with its next sub-step.
StepEndSwallowed(step, r, next) ==
    /\ trace' = Append(trace, <<step, r>>)
    /\ pc' = IF r = "interrupt" THEN "cleanup" ELSE next
    /\ exc' = IF r = "interrupt" THEN "KeyboardInterrupt" ELSE "none"
    /\ failed' = (failed \/ r # "ok")

\* How a sub-step of the try block ends: on success control goes to the next
\* sub-step; an Exception is caught by the except clause (line 124) and a
\* KeyboardInterrupt stays pending; then the finally clause runs.
StepEnd(step, r, next) ==
    /\ trace' = Append(trace, <<step, r>>)
    /\ pc' = IF r = "ok" THEN next ELSE "cleanup"
    /\ exc' = IF r = "interrupt" THEN "KeyboardInterrupt" ELSE "none"
    /\ failed' = (failed \/ r # "ok")

\* extract_audio: writes output/<stem>_temp.wav; a failure may leave the file
Extract ==
    /\ pc = "extract"
    /\ \E r \in {"ok", "error", "interrupt"} : \E wrote \in BOOLEAN :
          /\ r = "ok" => wrote
          /\ audio' = IF wrote THEN audio \cup {stem} ELSE audio
          /\ StepEnd("extract", r, "transcribe")
    /\ UNCHANGED << env, run, exitCode, printed, mode, remainingExts, video_files,
                    idx, txt, text, txtBefore, written, prevTxt, prevOk >>

\* transcribe_audio: the recognizer returns the words spoken in the video.
\* With reraise (line 81) a recognizer error leaves the sub-step as an
\* exception; without it the function would return no text and process_video
\* would go on to save_text.
TranscribeStep(reraise) ==
    /\ pc = "transcribe"
    /\ \E r \in {"ok", "error", "interrupt"} :
          /\ text' = IF r = "ok" THEN Speech(video_path) ELSE text
          /\ IF reraise \/ r # "error"
             THEN StepEnd("transcribe", r, "persist")
             ELSE /\ trace' = Append(trace, <<"transcribe", r>>)
                  /\ pc' = "persist"
                  /\ exc' = "none"
                  /\ failed' = TRUE
    /\ UNCHANGED << env, run, exitCode, printed, mode, remainingExts, video_files,
                    idx, audio, txt, txtBefore, written, prevTxt, prevOk >>

\* a faulty transcribe_audio that reports a recognizer error and returns
TranscribeNoRaise == TranscribeStep(FALSE)

Transcribe == TranscribeStep(TRUE)

\* A faulty open mode ("r+"): the file is not truncated, the text overlays
\* the start of the old content.
ContentOverlaid(m, old, t, n) ==
    Present(SubSeq(t, 1, n) \o SubSeq(old.content, n + 1, Len(old.content)))

\* The content of a file opened in mode m ("w" truncates, "a" keeps) after the
\* first n items of t reached it.
Content(m, old, t, n) ==
    Present((IF m = "a" THEN old.content ELSE <<>>) \o SubSeq(t, 1, n))

\* save_text with open mode m: open, write, close.  The open may fail (file
\* untouched); after it the file is truncated and a failure or an interrupt
\* leaves whatever part of the text had reached the file.
SaveTextMode(m) ==
    /\ pc = "persist"
    /\ \E r \in {"ok", "error", "interrupt"} : \E opened \in BOOLEAN :
       \E n \in 0..Len(text) :
          /\ r = "ok" => (opened /\ n = Len(text))
          /\ ~opened => n = 0
          /\ txt' = IF opened
                    THEN [txt EXCEPT ![stem] = Content(m, txt[stem], text, n)]
                    ELSE txt
          /\ written' = IF r = "ok" THEN written \cup {stem} ELSE written
          /\ StepEnd("persist", r, "cleanup")
    /\ UNCHANGED << env, run, exitCode, printed, mode, remainingExts, video_files,
                    idx, audio, text, txtBefore, prevTxt, prevOk >>

\* a faulty save_text that opens the transcript for appending
SaveTextAppend == SaveTextMode("a")

SaveText == SaveTextMode("w")

\* A faulty cleanup placed at the end of the try block instead of the finally
\* clause: the file is deleted only when no sub-step failed.
AudioExistsAfterSuccess ==
    /\ stem \in audio
    /\ \A k \in DOMAIN trace : trace[k][2] = "ok"

\* audio_path.exists() (line 129)
AudioExists == stem \in audio

\* The finally clause (lines 127-131): delete the temporary audio file if it
\* exists.  unlink may raise, and the user may interrupt it; either exception
\* replaces the pending one and leaves process_video.  Without an exception
\* process_video returns to its caller.
Cleanup ==
    /\ pc = "cleanup"
    /\ \E r \in {"ok", "error", "interrupt", "nofile"} : \E gone \in BOOLEAN :
          /\ (r = "nofile") = ~AudioExists
          /\ gone = (r = "ok")
          /\ audio' = IF gone THEN audio \ {stem} ELSE audio
          /\ trace' = Append(trace, <<"cleanup", r>>)
          /\ LET e == CASE r = "error" -> "Exception"
                        [] r = "interrupt" -> "KeyboardInterrupt"
                        [] OTHER -> exc
             IN /\ exc' = e
                /\ IF e = "none"
                   THEN /\ pc' = IF mode = "batch" THEN "loop" ELSE "main_end"
                        /\ UNCHANGED << exitCode, printed >>
                   ELSE Propagate(e)
          /\ failed' = (failed \/ r \in {"error", "interrupt"})
    /\ UNCHANGED << env, run, mode, remainingExts, video_files, idx, txt, text,
                    txtBefore, written, prevTxt, prevOk >>

(* ------------------------------------------------------------ the next run *)

\* The user starts the program again with the same command line, on the same
\* data/ and the output/ the previous run left, after a run in which nothing
\* failed.
Rerun ==
    /\ pc = "exited"
    /\ exitCode = 0
    /\ ~failed
    /\ run < MaxRuns
    /\ run' = run + 1
    /\ prevTxt' = txt
    /\ prevOk' = ("summary" \in printed)
    /\ txtBefore' = txt
    /\ pc' = "parse"
    /\ exitCode' = -1
    /\ printed' = {}
    /\ mode' = "batch"
    /\ remainingExts' = {}
    /\ video_files' = <<>>
    /\ idx' = 0
    /\ text' = <<>>
    /\ exc' = "none"
    /\ trace' = <<>>
    /\ written' = {}
    /\ failed' = FALSE
    /\ UNCHANGED << env, audio, txt >>

Next ==
    \/ ParseArgs
    \/ InitConverter
    \/ Dispatch
    \/ DiscoverExt
    \/ CheckFound
    \/ Loop
    \/ Extract
    \/ Transcribe
    \/ SaveText
    \/ Cleanup
    \/ MainEnd
    \/ Rerun

Spec == Init /\ [][Next]_vars

(* ------------------------------------------------------------ vocabulary *)

Last(q) == q[Len(q)]

\* the finally clause of the current video has run
CleanupDone == trace # <<>> /\ Last(trace)[1] = "cleanup"

\* the deletion in the finally clause raised or was interrupted
CleanupBroken == CleanupDone /\ Last(trace)[2] \in {"error", "interrupt"}

\* sub-step st of the current video has run and ended with outcome r
Ran(st, r) == \E k \in DOMAIN trace : trace[k] = <<st, r>>

\* the processing of the i-th video of the list has ended
Processed(i) == i < idx \/ (i = idx /\ CleanupDone)

\* the discovery of process_all_videos is complete
Discovered == "found" \in printed \/ "no_videos" \in printed

\* a batch run has ended with every discovered video processed successfully
BatchOk == pc = "exited" /\ "summary" \in printed /\ ~failed

\* Path.suffix of f is one of the supported extensions in some casing
IsVideo(f) == Lower(f.suffix) \in video_extensions

\* number of times f occurs in the list q
Count(f, q) == Cardinality({ i \in DOMAIN q : q[i] = f })

\* position of the last video of the list with stem s
LastWithStem(s) ==
    CHOOSE i \in DOMAIN video_files :
        /\ video_files[i].stem = s
        /\ \A j \in DOMAIN video_files : video_files[j].stem = s => j <= i

StemsOf(q) == { q[i].stem : i \in DOMAIN q }

\* no two different videos of the list share a base name
DistinctStems ==
    \A i, j \in DOMAIN video_files :
        video_files[i].stem = video_files[j].stem => video_files[i] = video_files[j]

(* ----------------------------------------------------------------- claims *)

C2_FailureNeverStopsBatch ==
    ( /\ pc = "exited"
      /\ mode = "batch"
      /\ \E st \in {"extract", "transcribe", "persist"} : Ran(st, "error")
      /\ \A k \in DOMAIN trace : trace[k][2] # "interrupt" )
    => "summary" \in printed

\* C3: when deleting the intermediate audio file fails, process_video still
\* returns normally, the batch goes on to its summary and the exit code is
\* not 1.
C3_UnlinkFailureNotEscalated ==
    (pc = "exited" /\ Ran("cleanup", "error")) =>
        /\ exitCode # 1
        /\ mode = "batch" => "summary" \in printed

\* C4: when the extraction or the transcription of a video fails, the
\* processing of that video leaves every transcript as it was when
\* process_video was entered: none created, none altered.
C4_FailureLeavesTranscript ==
    (\E r \in {"error", "interrupt"} : Ran("extract", r) \/ Ran("transcribe", r))
        => txt = txtBefore

\* C4 witness: the transcription failed for a video whose transcript already
\* existed, and process_video has ended.
C4_Witness ==
    /\ Ran("transcribe", "error")
    /\ CleanupDone
    /\ txtBefore[stem].exists

\* C5: after discovery every file of data/ whose extension is a supported one
\* in any casing is in video_files exactly once, and no other file is.
C5_DiscoveredExactlyOnce ==
    Discovered =>
        \A f \in dataDir : Count(f, video_files) = (IF IsVideo(f) THEN 1 ELSE 0)

\* C6: the exit code is 1 exactly when the --file path does not exist or an
\* error reached the top-level handler (initialization failure included);
\* it is 0 on normal completion; and a run the user interrupted ends with
\* the interruption notice printed and an exit code other than 1.
C6_ExitCode ==
    pc = "exited" =>
        /\ (exitCode = 1) <=> ("not_found" \in printed \/ "critical" \in printed)
        /\ ({"not_found", "critical", "interrupted", "usage"} \cap printed = {})
              => exitCode = 0
        /\ (\E k \in DOMAIN trace : trace[k][2] = "interrupt")
              => ("interrupted" \in printed /\ exitCode # 1)

\* C7, as stated: after a batch in which every discovered video was processed
\* successfully, each video's transcript holds the text recognized for that
\* video, and as many transcripts were produced as videos were processed.
C7_OneTranscriptPerVideo ==
    BatchOk =>
        /\ \A f \in Range(video_files) : txt[f.stem] = Present(Speech(f))
        /\ Cardinality(written) = Cardinality(Range(video_files))

\* C7, amended: after such a batch, for every base name among the videos,
\* output/<stem>.txt holds the text recognized for the video of that base
\* name processed last, and as many transcripts were produced as there are
\* distinct base names.
C7_OneTranscriptPerStem ==
    BatchOk =>
        /\ \A s \in StemsOf(video_files) :
              txt[s] = Present(Speech(video_files[LastWithStem(s)]))
        /\ written = StemsOf(video_files)

\* C7 witness: a successful batch over two videos that share a base name.
C7_Witness ==
    /\ BatchOk
    /\ Cardinality(Range(video_files)) = 2
    /\ Cardinality(StemsOf(video_files)) = 1

\* C8, as stated: once save_text has run for a video, however it ended, the
\* transcript holds the complete text or is as it was before the write.
C8_WholeOrNothing ==
    (\E r \in {"ok", "error", "interrupt"} : Ran("persist", r)) =>
        (txt[stem] = Present(text) \/ txt[stem] = txtBefore[stem])

\* C8, amended: after save_text returned normally the transcript holds the
\* complete text; after it failed or was interrupted the transcript is as it
\* was before (the open failed) or holds a prefix of the text, possibly
\* empty, the previous content being lost.
C8_WholeOnSuccessPrefixOnFailure ==
    /\ Ran("persist", "ok") => txt[stem] = Present(text)
    /\ (Ran("persist", "error") \/ Ran("persist", "interrupt")) =>
          \/ txt[stem] = txtBefore[stem]
          \/ \E n \in 0..Len(text) : txt[stem] = Present(SubSeq(text, 1, n))

\* C8 witness: the write over an existing transcript failed part-way and left
\* a proper, non-empty prefix of the text.
C8_Witness ==
    /\ Ran("persist", "error")
    /\ txtBefore[stem].exists
    /\ txt[stem] = Present(SubSeq(text, 1, 1))
    /\ txt[stem] # txtBefore[stem]

\* C9, as stated: a second successful batch over the same data/ leaves every
\* transcript as the first successful batch left it, for any file names and
\* any discovery order.
C9_Idempotent ==
    (run > 1 /\ prevOk /\ BatchOk) => txt = prevTxt

\* C9, amended: the same, provided no two discovered videos share a base
\* name.
C9_IdempotentDistinctStems ==
    (run > 1 /\ prevOk /\ BatchOk /\ DistinctStems) => txt = prevTxt

\* C9 witness: the second successful batch over two videos of different base
\* names has ended.
C9_Witness ==
    /\ run > 1
    /\ prevOk
    /\ BatchOk
    /\ DistinctStems
    /\ Cardinality(StemsOf(video_files)) = 2

\* the sub-steps run so far for the current video are in their order, each at
\* most once, each started only after the one before it succeeded
StepsInOrder ==
    \A k \in DOMAIN trace :
        /\ trace[k][1] = "extract" => k = 1
        /\ trace[k][1] = "transcribe" => (k = 2 /\ trace[1] = <<"extract", "ok">>)
        /\ trace[k][1] = "persist" => (k = 3 /\ trace[2] = <<"transcribe", "ok">>)
        /\ trace[k][1] = "cleanup" =>
              /\ k > 1
              /\ k = Len(trace)
              /\ (trace[k-1][2] # "ok" \/ trace[k-1][1] = "persist")

\* C10: for each video the sub-steps run at most once each, in the order
\* extract, transcribe, persist, cleanup, each only after the one before it
\* succeeded; the cleanup has run whenever process_video has ended; and the
\* batch moves to the next video only after the cleanup of the current one.
C10_StepOrder ==
    /\ [](StepsInOrder /\ (idx >= 1 /\ pc \in {"loop", "main_end", "exited"} => CleanupDone))
    /\ [][(idx' # idx /\ idx >= 1 /\ run' = run) => CleanupDone]_vars

\* C10 witness: the second video of a batch was extracted, its transcription
\* failed, and the cleanup ran next.
C10_Witness ==
    /\ idx = 2
    /\ trace = << <<"extract", "ok">>, <<"transcribe", "error">>, <<"cleanup", "ok">> >>

====
